---- MODULE Spec2Model ----
(***************************************************************************)
(* Flat binary emitter of rvasm (src/emit/flatbin.rs).                     *)
(*                                                                         *)
(* The emitter walks the nodes of a Root sequence in order and mutates one *)
(* BinaryEmitState.  One action models the visit of one top-level node,    *)
(* with every nested call it makes (emit_deferred, accomodate_bytes, the   *)
(* re-emission of deferred instructions); EndOfStream models what Root     *)
(* does once its loop is over.  The input stream is not fixed in advance:  *)
(* every step draws the next node from a finite alphabet, so the reachable *)
(* states are those of all streams of at most MaxNodes nodes.              *)
(***************************************************************************)
EXTENDS Integers, Sequences, FiniteSets, TLC

VARIABLES out_buf, out_pos, deferred, label_set, local_label_set, const_set,
          status, err_arg, stream, placed, pending_idx, resolved

vars == <<out_buf, out_pos, deferred, label_set, local_label_set, const_set,
          status, err_arg, stream, placed, pending_idx, resolved>>

(***************************************************************************)
(* Bounds of the model.                                                    *)
(***************************************************************************)
MaxNodes == 3
MaxScopeNodes == 6
MaxLookupNodes == 4

(***************************************************************************)
(* Values and small helpers.                                               *)
(***************************************************************************)
None == -1

EmptyMap == <<>>

MapInsert(m, k, v) == [x \in (DOMAIN m) \cup {k} |-> IF x = k THEN v ELSE m[x]]

MapGet(m, k) == IF k \in DOMAIN m THEN m[k] ELSE None

OrElse(a, b) == IF a # None THEN a ELSE b

Zeros(n) == [i \in 1..n |-> 0]

\* A resize that fills the bytes it adds with a nonzero value.
Resize_filled(buf, n) ==
    IF n > Len(buf) THEN buf \o [i \in 1..(n - Len(buf)) |-> 170] ELSE SubSeq(buf, 1, n)

Resize(buf, n) == IF n > Len(buf) THEN buf \o Zeros(n - Len(buf)) ELSE SubSeq(buf, 1, n)

WriteBytes(buf, start, bytes) ==
    [i \in 1..Len(buf) |->
        IF i > start /\ i <= start + Len(bytes) THEN bytes[i - start] ELSE buf[i]]

LocalNames == {".x"}

StartsWithDot(lname) == lname \in LocalNames

(***************************************************************************)
(* Program nodes (parser::Node).                                           *)
(***************************************************************************)
Register(r) == [t |-> "Register", n |-> r, id |-> ""]
Integer(v) == [t |-> "Integer", n |-> v, id |-> ""]
Identifier(name) == [t |-> "Identifier", n |-> 0, id |-> name]
PcRel(name) == [t |-> "PcRel", n |-> 0, id |-> name]

Label(lname) == [kind |-> "Label", name |-> lname, args |-> <<>>]
Instruction(iname, args) == [kind |-> "Instruction", name |-> iname, args |-> args]
Other == [kind |-> "Integer", name |-> "", args |-> <<>>]

(***************************************************************************)
(* The architecture specification (arch::RiscVSpec), an external           *)
(* collaborator: its constants, instruction definitions and formats.       *)
(***************************************************************************)
SpecConsts == [XLEN |-> 32]

get_const(key) == MapGet(SpecConsts, key)

IsSpecInstruction(iname) == iname = "jal" \/ iname = "cj" \/ iname = "wide"

get_instruction_by_name(iname) ==
    CASE iname = "jal" -> [opcode |-> 111, ilen |-> 32, fields |-> <<"Register", "Value">>, args |-> <<1, 2>>]
      [] iname = "cj" -> [opcode |-> 5, ilen |-> 16, fields |-> <<"Value">>, args |-> <<1>>]
      [] iname = "wide" -> [opcode |-> 31, ilen |-> 48, fields |-> <<"Value">>, args |-> <<1>>]

FieldLimit == 64

encode_ok(specinsn, argv) == \A i \in 1..Len(argv) : argv[i] >= 0 /\ argv[i] < FieldLimit

encode_into(specinsn, argv) ==
    LET n == (specinsn.ilen + 7) \div 8
    IN [i \in 1..n |-> IF i = 1 THEN specinsn.opcode
                       ELSE IF i - 1 <= Len(argv) THEN argv[i - 1] ELSE 0]

(***************************************************************************)
(* BinaryEmitState and its methods.                                        *)
(***************************************************************************)
State == [out_buf |-> out_buf, out_pos |-> out_pos, deferred |-> deferred,
          label_set |-> label_set, local_label_set |-> local_label_set,
          const_set |-> const_set, err |-> "", arg |-> None]

Fail(s, kind, i) == [s EXCEPT !.err = kind, !.arg = i]

accomodate_bytes(s, byte_count) ==
    LET start_pos == s.out_pos
        end_pos == start_pos + byte_count
    IN [s EXCEPT !.out_buf = IF Len(s.out_buf) < end_pos THEN Resize(s.out_buf, end_pos) ELSE @,
                 !.out_pos = end_pos]

\* A lookup that asks the constants before the labels.
find_const_constants_first(s, key) ==
    OrElse(OrElse(OrElse(MapGet(s.const_set, key), MapGet(s.label_set, key)),
                  MapGet(s.local_label_set, key)),
           get_const(key))

find_const(s, key) ==
    OrElse(OrElse(OrElse(MapGet(s.label_set, key), MapGet(s.local_label_set, key)),
                  MapGet(s.const_set, key)),
           get_const(key))

(***************************************************************************)
(* Node::emitter_simplify, the external expression simplifier: an          *)
(* identifier the resolver knows becomes an integer, a pc-relative         *)
(* reference becomes the distance from pc, what cannot be resolved is left *)
(* as it is and reported.  A negative distance stands for its wrapped u64  *)
(* value, which no instruction field can hold.                             *)
(***************************************************************************)
simplify_arg(s, arg, pc) ==
    CASE arg.t = "Identifier" ->
            IF find_const(s, arg.id) # None
            THEN [node |-> Integer(find_const(s, arg.id)), ok |-> TRUE]
            ELSE [node |-> arg, ok |-> FALSE]
      [] arg.t = "PcRel" ->
            IF find_const(s, arg.id) # None
            THEN [node |-> Integer(find_const(s, arg.id) - pc), ok |-> TRUE]
            ELSE [node |-> arg, ok |-> FALSE]
      [] OTHER -> [node |-> arg, ok |-> TRUE]

emitter_simplify(s, node, pc) ==
    [node |-> [node EXCEPT !.args = [i \in 1..Len(node.args) |-> simplify_arg(s, node.args[i], pc).node]],
     ok |-> \A i \in 1..Len(node.args) : simplify_arg(s, node.args[i], pc).ok]

(***************************************************************************)
(* emit_binary_recurse, Instruction arm.                                   *)
(***************************************************************************)
IALIGN == 32
ILEN == 32

ialign_bytes == (OrElse(get_const("IALIGN"), IALIGN) + 7) \div 8
max_ilen_bytes == (OrElse(get_const("ILEN"), ILEN) + 7) \div 8

\* An .org that queues itself when its operand does not resolve yet.
emit_org_deferring(s, node) ==
    IF Len(node.args) # 1 THEN Fail(s, "InvalidArgumentCount", None)
    ELSE LET simp == simplify_arg(s, node.args[1], s.out_pos)
         IN IF simp.node.t = "Integer"
            THEN LET new_out_pos == simp.node.n
                 IN [s EXCEPT !.out_buf = IF new_out_pos > Len(@) THEN Resize(@, new_out_pos) ELSE @,
                              !.out_pos = new_out_pos]
            ELSE [s EXCEPT !.deferred = Append(@, [pos |-> s.out_pos, insn |-> node])]

\* An .org that moves the cursor without extending the image.
emit_org_no_extend(s, node) ==
    IF Len(node.args) # 1 THEN Fail(s, "InvalidArgumentCount", None)
    ELSE LET simp == simplify_arg(s, node.args[1], s.out_pos)
         IN IF simp.node.t = "Integer"
            THEN [s EXCEPT !.out_pos = simp.node.n]
            ELSE Fail(s, "InvalidArgumentType", 0)

\* An .org that takes its operand as a distance from the cursor.
emit_org_relative(s, node) ==
    IF Len(node.args) # 1 THEN Fail(s, "InvalidArgumentCount", None)
    ELSE LET simp == simplify_arg(s, node.args[1], s.out_pos)
         IN IF simp.node.t = "Integer"
            THEN LET new_out_pos == s.out_pos + simp.node.n
                 IN [s EXCEPT !.out_buf = IF new_out_pos > Len(@) THEN Resize(@, new_out_pos) ELSE @,
                              !.out_pos = new_out_pos]
            ELSE Fail(s, "InvalidArgumentType", 0)

emit_org(s, node) ==
    IF Len(node.args) # 1 THEN Fail(s, "InvalidArgumentCount", None)
    ELSE LET simp == simplify_arg(s, node.args[1], s.out_pos)
         IN IF simp.node.t = "Integer"
            THEN LET new_out_pos == simp.node.n
                 IN [s EXCEPT !.out_buf = IF new_out_pos > Len(@) THEN Resize(@, new_out_pos) ELSE @,
                              !.out_pos = new_out_pos]
            ELSE Fail(s, "InvalidArgumentType", 0)

emit_equ(s, node) ==
    IF Len(node.args) # 2 THEN Fail(s, "InvalidArgumentCount", None)
    ELSE IF node.args[1].t = "Identifier"
         THEN LET simp == simplify_arg(s, node.args[2], s.out_pos)
                  defname == node.args[1].id
              IN IF simp.node.t = "Integer"
                 THEN IF defname \notin DOMAIN s.const_set
                      THEN [s EXCEPT !.const_set = MapInsert(@, defname, simp.node.n)]
                      ELSE Fail([s EXCEPT !.const_set = MapInsert(@, defname, simp.node.n)],
                                "DuplicateConstant", None)
                 ELSE Fail(s, "InvalidArgumentType", 1)
         ELSE Fail(s, "InvalidArgumentType", 0)

aligned(pos) == ((pos + ialign_bytes - 1) \div ialign_bytes) * ialign_bytes

\* An alignment step that pads nothing.
pad_nothing(s) == s

pad_to_alignment(s) ==
    IF s.out_pos # aligned(s.out_pos)
    THEN accomodate_bytes(s, aligned(s.out_pos) - s.out_pos)
    ELSE s

ArgMatches(vtype, arg) ==
    \/ vtype = "Value" /\ arg.t = "Integer"
    \/ vtype = "Register" /\ arg.t = "Register"

BadArgs(specinsn, args) ==
    {i \in 1..Len(args) : ~ArgMatches(specinsn.fields[specinsn.args[i]], args[i])}

Min(S) == CHOOSE x \in S : \A y \in S : x <= y

emit_resolved(s, specinsn, args) ==
    IF BadArgs(specinsn, args) # {}
    THEN Fail(s, "InvalidArgumentType", Min(BadArgs(specinsn, args)) - 1)
    ELSE LET argv == [i \in 1..Len(args) |-> args[i].n]
             ilen_bytes == (specinsn.ilen + 7) \div 8
             s2 == accomodate_bytes(s, ilen_bytes)
         IN IF encode_ok(specinsn, argv)
            THEN [s2 EXCEPT !.out_buf = WriteBytes(@, s.out_pos, encode_into(specinsn, argv))]
            ELSE Fail(s2, "InvalidEncoding", None)

\* A deferral that queues the entry and reserves nothing.
defer_no_reserve(s, insn, ilen_bytes) ==
    [s EXCEPT !.deferred = Append(@, [pos |-> s.out_pos, insn |-> insn])]

defer(s, insn, ilen_bytes) ==
    accomodate_bytes([s EXCEPT !.deferred = Append(@, [pos |-> s.out_pos, insn |-> insn])],
                     ilen_bytes)

\* A standard arm that pads to the alignment before it looks at the instruction.
emit_standard_pad_first(s, node) ==
    LET s1 == pad_to_alignment(s)
    IN IF ~IsSpecInstruction(node.name) THEN Fail(s1, "InvalidInstruction", None)
       ELSE LET specinsn == get_instruction_by_name(node.name)
                ilen_bytes == (specinsn.ilen + 7) \div 8
            IN IF Len(node.args) # Len(specinsn.args) THEN Fail(s1, "InvalidArgumentCount", None)
               ELSE IF ilen_bytes > max_ilen_bytes THEN Fail(s1, "InvalidEncoding", None)
               ELSE LET simpinsn == emitter_simplify(s1, node, s1.out_pos)
                    IN IF ~simpinsn.ok
                       THEN defer(s1, simpinsn.node, ilen_bytes)
                       ELSE emit_resolved(s1, specinsn, simpinsn.node.args)

emit_standard(s, node) ==
    IF ~IsSpecInstruction(node.name) THEN Fail(s, "InvalidInstruction", None)
    ELSE LET specinsn == get_instruction_by_name(node.name)
             ilen_bytes == (specinsn.ilen + 7) \div 8
         IN IF Len(node.args) # Len(specinsn.args) THEN Fail(s, "InvalidArgumentCount", None)
            ELSE IF ilen_bytes > max_ilen_bytes THEN Fail(s, "InvalidEncoding", None)
            ELSE LET s1 == pad_to_alignment(s)
                     simpinsn == emitter_simplify(s1, node, s1.out_pos)
                 IN IF ~simpinsn.ok
                    THEN defer(s1, simpinsn.node, ilen_bytes)
                    ELSE emit_resolved(s1, specinsn, simpinsn.node.args)

emit_instruction(s, node) ==
    CASE node.name = ".org" \/ node.name = ".ORG" -> emit_org(s, node)
      [] node.name = ".equ" \/ node.name = ".EQU" \/ node.name = ".define"
            \/ node.name = ".DEFINE" -> emit_equ(s, node)
      [] OTHER -> emit_standard(s, node)

(***************************************************************************)
(* emit_deferred: the flush of the pending queue.                          *)
(***************************************************************************)
\* A selection that takes every pending entry, resolved or not.
Resolvable_all(s) == [i \in 1..Len(s.deferred) |-> i]

Resolvable(s) ==
    SelectSeq([i \in 1..Len(s.deferred) |-> i],
              LAMBDA i : emitter_simplify(s, s.deferred[i].insn, s.deferred[i].pos).ok)

swap_remove(q, i) ==
    IF i = Len(q) THEN SubSeq(q, 1, Len(q) - 1)
    ELSE [SubSeq(q, 1, Len(q) - 1) EXCEPT ![i] = q[Len(q)]]

RECURSIVE remove_rev(_, _)
remove_rev(q, to_remove) ==
    IF to_remove = <<>> THEN q
    ELSE remove_rev(swap_remove(q, to_remove[Len(to_remove)]),
                    SubSeq(to_remove, 1, Len(to_remove) - 1))

\* A flush that simplifies an entry with the cursor as program counter.
ToEmit_cursor_pc(s) ==
    [k \in 1..Len(Resolvable(s)) |->
        LET e == s.deferred[Resolvable(s)[k]]
        IN [pos |-> e.pos, insn |-> emitter_simplify(s, e.insn, s.out_pos).node]]

ToEmit(s) ==
    [k \in 1..Len(Resolvable(s)) |->
        LET e == s.deferred[Resolvable(s)[k]]
        IN [pos |-> e.pos, insn |-> emitter_simplify(s, e.insn, e.pos).node]]

\* A re-emission that leaves the cursor behind the entry it wrote.
RECURSIVE emit_each_no_restore(_, _)
emit_each_no_restore(s, to_emit) ==
    IF to_emit = <<>> THEN s
    ELSE LET r == emit_instruction([s EXCEPT !.out_pos = to_emit[1].pos], to_emit[1].insn)
         IN IF r.err # "" THEN r
            ELSE emit_each_no_restore(r, Tail(to_emit))

RECURSIVE emit_each(_, _)
emit_each(s, to_emit) ==
    IF to_emit = <<>> THEN s
    ELSE LET saved_pos == s.out_pos
             r == emit_instruction([s EXCEPT !.out_pos = to_emit[1].pos], to_emit[1].insn)
         IN IF r.err # "" THEN r
            ELSE emit_each([r EXCEPT !.out_pos = saved_pos], Tail(to_emit))

emit_deferred(s) ==
    emit_each([s EXCEPT !.deferred = remove_rev(@, Resolvable(s))], ToEmit(s))

(***************************************************************************)
(* emit_binary_recurse, Label arm and the end of the Root arm.             *)
(***************************************************************************)
\* A local branch that records the label without looking for a duplicate.
emit_local_label_overwrite(s, lname) ==
    [s EXCEPT !.local_label_set = MapInsert(@, lname, s.out_pos)]

emit_local_label(s, lname) ==
    LET s1 == [s EXCEPT !.local_label_set = MapInsert(@, lname, s.out_pos)]
    IN IF lname \in DOMAIN s.local_label_set THEN Fail(s1, "DuplicateLabel", None) ELSE s1

\* A global branch that records the label without looking for a duplicate.
emit_global_label_overwrite(s, lname) ==
    LET s1 == emit_deferred(s)
    IN IF s1.err # "" THEN s1
       ELSE [s1 EXCEPT !.local_label_set = EmptyMap,
                       !.label_set = MapInsert(@, lname, s1.out_pos)]

\* A global branch that keeps the locals of the scope it closes.
emit_global_label_keep_locals(s, lname) ==
    LET s1 == emit_deferred(s)
        s2 == [s1 EXCEPT !.label_set = MapInsert(@, lname, s1.out_pos)]
    IN IF s1.err # "" THEN s1
       ELSE IF lname \in DOMAIN s1.label_set THEN Fail(s2, "DuplicateLabel", None)
       ELSE s2

emit_global_label(s, lname) ==
    LET s1 == emit_deferred(s)
        s2 == [s1 EXCEPT !.local_label_set = EmptyMap,
                         !.label_set = MapInsert(@, lname, s1.out_pos)]
    IN IF s1.err # "" THEN s1
       ELSE IF lname \in DOMAIN s1.label_set THEN Fail(s2, "DuplicateLabel", None)
       ELSE s2

emit_label(s, lname) ==
    IF StartsWithDot(lname) THEN emit_local_label(s, lname) ELSE emit_global_label(s, lname)

\* A Root arm that forgets to look at what the final flush left behind.
emit_root_end_unchecked(s) ==
    LET s1 == emit_deferred(s)
    IN IF s1.err # "" THEN s1 ELSE [s1 EXCEPT !.err = "Ok"]

emit_root_end(s) ==
    LET s1 == emit_deferred(s)
    IN IF s1.err # "" THEN s1
       ELSE IF Len(s1.deferred) > 0 THEN Fail(s1, "UnexpectedNodeType", None)
       ELSE [s1 EXCEPT !.err = "Ok"]

(***************************************************************************)
(* emit_flat_binary: the initial state, and the walk over the Root nodes.  *)
(* stream, placed, pending_idx and resolved are history variables: the     *)
(* nodes visited so far, where each standard instruction was placed at its *)
(* first visit, the stream index of each pending entry, and the entries    *)
(* each flush took out of the queue.                                       *)
(***************************************************************************)
Init ==
    /\ out_buf = <<>>
    /\ out_pos = 0
    /\ deferred = <<>>
    /\ label_set = EmptyMap
    /\ local_label_set = EmptyMap
    /\ const_set = EmptyMap
    /\ status = "Running"
    /\ err_arg = None
    /\ stream = <<>>
    /\ placed = <<>>
    /\ pending_idx = <<>>
    /\ resolved = <<>>

Commit(r) ==
    /\ out_buf' = r.out_buf
    /\ out_pos' = r.out_pos
    /\ deferred' = r.deferred
    /\ label_set' = r.label_set
    /\ local_label_set' = r.local_label_set
    /\ const_set' = r.const_set
    /\ status' = IF r.err = "" THEN "Running" ELSE r.err
    /\ err_arg' = r.arg

IsGlobalLabel(node) == node.kind = "Label" /\ ~StartsWithDot(node.name)

ScopeAt(k) == Cardinality({j \in 1..k : IsGlobalLabel(stream[j])})

Flushed(s) ==
    [k \in 1..Len(Resolvable(s)) |->
        [idx |-> pending_idx[Resolvable(s)[k]],
         pos |-> s.deferred[Resolvable(s)[k]].pos,
         insn |-> ToEmit(s)[k].insn,
         raw |-> s.deferred[Resolvable(s)[k]].insn,
         at |-> Len(stream),
         cursor |-> s.out_pos]]

IsOrgName(iname) == iname = ".org" \/ iname = ".ORG"

IsEquName(iname) ==
    iname = ".equ" \/ iname = ".EQU" \/ iname = ".define" \/ iname = ".DEFINE"

IsDirective(node) == IsOrgName(node.name) \/ IsEquName(node.name)

Placeable(node) ==
    /\ ~IsDirective(node)
    /\ IsSpecInstruction(node.name)
    /\ Len(node.args) = Len(get_instruction_by_name(node.name).args)
    /\ (get_instruction_by_name(node.name).ilen + 7) \div 8 <= max_ilen_bytes

VisitLabel(Names, Max) ==
    /\ status = "Running"
    /\ Len(stream) < Max
    /\ \E i \in 1..Len(Names) : LET lname == Names[i] IN
          /\ Commit(emit_label(State, lname))
          /\ stream' = Append(stream, Label(lname))
          /\ IF StartsWithDot(lname)
             THEN UNCHANGED <<pending_idx, resolved>>
             ELSE /\ pending_idx' = remove_rev(pending_idx, Resolvable(State))
                  /\ resolved' = resolved \o Flushed(State)
    /\ UNCHANGED placed

VisitInstruction(Insns, Max) ==
    /\ status = "Running"
    /\ Len(stream) < Max
    /\ \E i \in 1..Len(Insns) : LET node == Insns[i] IN
          /\ Commit(emit_instruction(State, node))
          /\ stream' = Append(stream, node)
          /\ IF Placeable(node)
             THEN LET s1 == pad_to_alignment(State)
                      isdef == ~emitter_simplify(s1, node, s1.out_pos).ok
                  IN /\ placed' = Append(placed, [idx |-> Len(stream) + 1, pos |-> s1.out_pos,
                                                  from |-> out_pos, deferred |-> isdef,
                                                  insn |-> node])
                     /\ pending_idx' = IF isdef THEN Append(pending_idx, Len(stream) + 1)
                                       ELSE pending_idx
             ELSE UNCHANGED <<placed, pending_idx>>
    /\ UNCHANGED resolved

VisitOther(Max) ==
    /\ status = "Running"
    /\ Len(stream) < Max
    /\ Commit(Fail(State, "UnexpectedNodeType", None))
    /\ stream' = Append(stream, Other)
    /\ UNCHANGED <<placed, pending_idx, resolved>>

EndOfStream ==
    /\ status = "Running"
    /\ Commit(emit_root_end(State))
    /\ pending_idx' = remove_rev(pending_idx, Resolvable(State))
    /\ resolved' = resolved \o Flushed(State)
    /\ UNCHANGED <<stream, placed>>

(***************************************************************************)
(* The input alphabet of the general specification.                        *)
(***************************************************************************)
x1 == Register(1)

Labels == <<"A", "B", ".x">>

Directives ==
    <<Instruction(".org", <<Integer(0)>>), Instruction(".org", <<Integer(2)>>),
     Instruction(".org", <<Integer(8)>>), Instruction(".org", <<Identifier("B")>>),
     Instruction(".equ", <<Identifier("A"), Integer(5)>>),
     Instruction(".equ", <<Identifier("K"), Identifier("A")>>)>>

Instructions ==
    <<Instruction("jal", <<x1, Integer(1)>>), Instruction("jal", <<x1, Identifier("A")>>),
     Instruction("jal", <<x1, Identifier("B")>>), Instruction("jal", <<x1, Identifier(".x")>>),
     Instruction("jal", <<x1, PcRel("B")>>), Instruction("jal", <<Identifier("A"), x1>>),
     Instruction("cj", <<Identifier("XLEN")>>), Instruction("cj", <<Integer(3)>>),
     Instruction("wide", <<Integer(1)>>), Instruction("jal", <<x1>>),
     Instruction("nop", <<>>)>>

Next ==
    \/ VisitLabel(Labels, MaxNodes)
    \/ VisitInstruction(Directives \o Instructions, MaxNodes)
    \/ VisitOther(MaxNodes)
    \/ EndOfStream

Spec == Init /\ [][Next]_vars

(***************************************************************************)
(* Streams of labels and of references to a local label only, followed     *)
(* further than the general alphabet allows.                               *)
(***************************************************************************)
ScopeLabels == <<"A", "B", "C", ".x">>

ScopeInstructions ==
    <<Instruction("jal", <<x1, Identifier(".x")>>), Instruction("jal", <<x1, Integer(1)>>)>>

NextScope ==
    \/ VisitLabel(ScopeLabels, MaxScopeNodes)
    \/ VisitInstruction(ScopeInstructions, MaxScopeNodes)
    \/ EndOfStream

SpecScope == Init /\ [][NextScope]_vars

(***************************************************************************)
(* Streams in which one name can sit in several symbol tables.             *)
(***************************************************************************)
LookupLabels == <<"A", ".x">>

LookupDirectives ==
    <<Instruction(".equ", <<Identifier("A"), Integer(5)>>),
     Instruction(".equ", <<Identifier(".x"), Integer(7)>>),
     Instruction(".equ", <<Identifier("XLEN"), Integer(9)>>)>>

LookupInstructions ==
    <<Instruction("jal", <<x1, Identifier("A")>>), Instruction("jal", <<x1, Identifier(".x")>>),
     Instruction("jal", <<x1, Identifier("XLEN")>>)>>

NextLookup ==
    \/ VisitLabel(LookupLabels, MaxLookupNodes)
    \/ VisitInstruction(LookupDirectives \o LookupInstructions, MaxLookupNodes)
    \/ EndOfStream

SpecLookup == Init /\ [][NextLookup]_vars

(***************************************************************************)
(* Vocabulary of the properties.                                           *)
(***************************************************************************)
Bytes(buf, pos, n) == SubSeq(buf, pos + 1, pos + n)

IlenBytes(node) == (get_instruction_by_name(node.name).ilen + 7) \div 8

Symbolic(arg) == arg.t = "Identifier" \/ arg.t = "PcRel"

Refs(node) == {node.args[i].id : i \in {j \in 1..Len(node.args) : Symbolic(node.args[j])}}

NoOrg == \A j \in 1..Len(stream) : ~IsOrgName(stream[j].name)

\* The argument values an instruction at position pos gets when every symbol
\* it names has the value the table gives it.
ValuesUnder(table, node, pos) ==
    [i \in 1..Len(node.args) |->
        CASE node.args[i].t = "Identifier" -> table[node.args[i].id]
          [] node.args[i].t = "PcRel" -> table[node.args[i].id] - pos
          [] OTHER -> node.args[i].n]

EncodingUnder(table, node, pos) ==
    encode_into(get_instruction_by_name(node.name), ValuesUnder(table, node, pos))

start == "A"
end == "B"

\* C1: in a run that emits successfully, an instruction deferred on a global
\* label defined later in the stream ends up in the final image with the bytes
\* it would get if the label's value had been known at its first visit (same
\* position as program counter); and [Label start, jal x1 end, Label end]
\* gives a 4-byte image with target 4 and nothing pending.  (Streams without
\* .org, so that nothing else writes over the instruction.)
C1_ForwardReference ==
    /\ (status = "Ok" /\ NoOrg) =>
          \A k \in 1..Len(placed) :
             (placed[k].deferred /\ Refs(placed[k].insn) \subseteq DOMAIN label_set) =>
                Bytes(out_buf, placed[k].pos, IlenBytes(placed[k].insn))
                   = EncodingUnder(label_set, placed[k].insn, placed[k].pos)
    /\ (status = "Ok" /\ stream = <<Label(start), Instruction("jal", <<x1, Identifier(end)>>), Label(end)>>) =>
          /\ out_buf = <<111, 1, 4, 0>>
          /\ deferred = <<>>

\* The concrete scenario of C1 alone, which the code does satisfy.
C1_Scenario ==
    (status = "Ok" /\ stream = <<Label(start), Instruction("jal", <<x1, Identifier(end)>>), Label(end)>>) =>
          /\ out_buf = <<111, 1, 4, 0>>
          /\ deferred = <<>>

C1_ScenarioReached ==
    status = "Ok" /\ stream = <<Label(start), Instruction("jal", <<x1, Identifier(end)>>), Label(end)>>

\* C1 without the streams that define a name both as a constant and as a
\* label: there the forward reference does get the label's value.
C1_NoSharedNames ==
    (status = "Ok" /\ NoOrg) =>
          \A k \in 1..Len(placed) :
             (/\ placed[k].deferred
              /\ Refs(placed[k].insn) \subseteq DOMAIN label_set
              /\ Refs(placed[k].insn) \cap DOMAIN const_set = {}) =>
                Bytes(out_buf, placed[k].pos, IlenBytes(placed[k].insn))
                   = EncodingUnder(label_set, placed[k].insn, placed[k].pos)

(***************************************************************************)
(* End of stream.                                                          *)
(***************************************************************************)
AllResolvable == Len(Resolvable(State)) = Len(deferred)

EveryDeferredResolved ==
    \A k \in 1..Len(placed) :
       placed[k].deferred => \E j \in 1..Len(resolved) : resolved[j].idx = placed[k].idx

IsReencodeError(e) == e = "InvalidArgumentType" \/ e = "InvalidEncoding"

\* C2 as stated: at the end of the stream, if every pending entry resolves
\* the queue is emptied and an image is returned; if not, the result is
\* UnexpectedNodeType; an image is never returned with an entry still pending.
C2_AsStated ==
    [][EndOfStream =>
          /\ AllResolvable => (deferred' = <<>> /\ status' = "Ok")
          /\ ~AllResolvable => status' = "UnexpectedNodeType"
          /\ status' = "Ok" => (deferred' = <<>> /\ EveryDeferredResolved')]_vars

\* C2 amended: as C2, except that re-encoding an entry the final flush
\* resolved may itself fail (InvalidArgumentType, InvalidEncoding), and then
\* that error is the result: the result is Ok only with an empty queue and
\* every deferred instruction re-encoded, and a flush that completes with an
\* entry left over gives UnexpectedNodeType.
C2_EndOfStream ==
    [][EndOfStream =>
          /\ AllResolvable =>
                /\ deferred' = <<>>
                /\ (status' = "Ok" \/ IsReencodeError(status'))
                /\ status' = "Ok" <=> emit_deferred(State).err = ""
          /\ ~AllResolvable =>
                /\ (status' = "UnexpectedNodeType" \/ IsReencodeError(status'))
                /\ status' = "UnexpectedNodeType" <=> emit_deferred(State).err = ""
                /\ status' = "UnexpectedNodeType" => Len(deferred') > 0
          /\ status' = "Ok" => (deferred' = <<>> /\ EveryDeferredResolved')]_vars

C2_Witness ==
    /\ status = "Ok"
    /\ \E j \in 1..Len(resolved) : resolved[j].at = Len(stream)
    /\ \E k \in 1..Len(placed) : placed[k].deferred

(***************************************************************************)
(* Scopes of local labels.                                                 *)
(***************************************************************************)
\* The scope of stream[m] runs from the last global label before it to the
\* next global label after it (or the end of the stream).
SameScope(q, m) ==
    \A k \in 1..Len(stream) : IsGlobalLabel(stream[k]) => ((k <= q) <=> (k <= m))

\* stream[m] references the local name n, which was defined under an earlier
\* global label A, a later global label B comes before stream[m], and the
\* scope of stream[m] itself does not define n.
RefsClosedScope(m, n) ==
    /\ stream[m].kind = "Instruction"
    /\ n \in Refs(stream[m]) \cap LocalNames
    /\ \E i, j, k \in 1..m :
          /\ i < j /\ j < k /\ k < m
          /\ IsGlobalLabel(stream[i])
          /\ stream[j] = Label(n)
          /\ \A q \in (i + 1)..(j - 1) : ~IsGlobalLabel(stream[q])
          /\ IsGlobalLabel(stream[k])
    /\ \A q \in 1..Len(stream) : stream[q] = Label(n) => ~SameScope(q, m)

PendingIndexes(idxs) == {idxs[i] : i \in 1..Len(idxs)}

\* C3: a reference, after global label B, to a local label defined under the
\* earlier global label A makes emission end with the unresolved-reference
\* error, the entry left pending.
C3_ScopeIsolation ==
    [][(EndOfStream /\ \E m \in 1..Len(stream), n \in LocalNames : RefsClosedScope(m, n)) =>
          /\ status' = "UnexpectedNodeType"
          /\ Len(deferred') > 0]_vars

\* The locals table holds only labels of the current scope.
LocalsAreCurrent ==
    \A n \in DOMAIN local_label_set :
       \E j \in 1..Len(stream) :
          /\ stream[j] = Label(n)
          /\ \A k \in (j + 1)..Len(stream) : ~IsGlobalLabel(stream[k])

\* C4: local labels do not leak across global labels: the locals table holds
\* only labels of the current scope, and an entry a flush resolves through a
\* local label was deferred in the scope the flush closes, so an entry that
\* stayed pending across a global label never resolves a local name.
C4_NoLeak ==
    /\ LocalsAreCurrent
    /\ \A j \in 1..Len(resolved) :
          Refs(resolved[j].raw) \cap LocalNames # {} =>
             ScopeAt(resolved[j].at) = ScopeAt(resolved[j].idx)

(***************************************************************************)
(* Duplicate definitions.                                                  *)
(***************************************************************************)
Last(q) == q[Len(q)]

\* The step visits node n.
Visits(n) == status = "Running" /\ stream' = Append(stream, n)

IsEqu(n) == n.kind = "Instruction" /\ IsEquName(n.name)

\* n defines again a constant that exists, with a value that resolves.
RedefinesConstant(n) ==
    /\ IsEqu(n)
    /\ Len(n.args) = 2
    /\ n.args[1].t = "Identifier"
    /\ n.args[1].id \in DOMAIN const_set
    /\ simplify_arg(State, n.args[2], out_pos).ok

RedefinesLabel(n) == IsGlobalLabel(n) /\ n.name \in DOMAIN label_set

FlushFails == emit_deferred(State).err # ""

\* C5 as stated: the second definition of a global label gives DuplicateLabel
\* and the second definition of a constant gives DuplicateConstant, whatever
\* is pending when it is visited.
C5_AsStated ==
    [][\A n \in {stream'[i] : i \in {j \in 1..Len(stream') : j = Len(stream')}} :
          Visits(n) =>
             /\ RedefinesLabel(n) => status' = "DuplicateLabel"
             /\ RedefinesConstant(n) => status' = "DuplicateConstant"]_vars

\* C5 amended: the second definition of a global label never succeeds; it
\* gives DuplicateLabel unless the flush it triggers first fails to re-encode
\* a pending instruction, and then that error (InvalidArgumentType or
\* InvalidEncoding) is the result.  The second definition of a constant
\* gives DuplicateConstant.
C5_Duplicates ==
    [][\A n \in {stream'[i] : i \in {j \in 1..Len(stream') : j = Len(stream')}} :
          Visits(n) =>
             /\ RedefinesLabel(n) =>
                   /\ (status' = "DuplicateLabel" \/ IsReencodeError(status'))
                   /\ status' = "DuplicateLabel" <=> ~FlushFails
             /\ RedefinesConstant(n) => status' = "DuplicateConstant"]_vars

C5_Witness ==
    /\ status = "DuplicateLabel"
    /\ IsGlobalLabel(Last(stream))
    /\ \E j \in 1..Len(resolved) : resolved[j].at = Len(stream) - 1

(***************************************************************************)
(* Alignment.                                                              *)
(***************************************************************************)
PlacedAt(idx, pos) ==
    \E k \in 1..Len(placed) : placed[k].idx = idx /\ placed[k].pos = pos /\ placed[k].deferred

\* resolved[j] was re-encoded by the flush of the step just taken.
JustFlushed(j) ==
    \/ status = "Ok" /\ resolved[j].at = Len(stream)
    \/ /\ status = "Running" /\ stream # <<>> /\ IsGlobalLabel(Last(stream))
       /\ resolved[j].at = Len(stream) - 1

ConcreteEncoding(insn) ==
    encode_into(get_instruction_by_name(insn.name), [i \in 1..Len(insn.args) |-> insn.args[i].n])

\* C6: every standard instruction is written or reserved at a multiple of
\* ceil(IALIGN/8) bytes, the first one at or after the cursor, and the cursor
\* ends just behind it; a pending entry keeps that position, and the flush
\* that resolves it writes its encoding there.
C6_Aligned ==
    /\ \A k \in 1..Len(placed) :
          /\ placed[k].pos % ((IALIGN + 7) \div 8) = 0
          /\ placed[k].pos >= placed[k].from
          /\ placed[k].pos - placed[k].from < (IALIGN + 7) \div 8
    /\ (status = "Running" /\ stream # <<>> /\ Placeable(Last(stream))) =>
          /\ Last(placed).idx = Len(stream)
          /\ out_pos = Last(placed).pos + IlenBytes(Last(stream))
          /\ Len(out_buf) >= out_pos
          /\ ~Last(placed).deferred =>
                Bytes(out_buf, Last(placed).pos, IlenBytes(Last(stream)))[1]
                   = get_instruction_by_name(Last(stream).name).opcode
          /\ Last(placed).deferred => Last(deferred).pos = Last(placed).pos
    /\ \A i \in 1..Len(deferred) :
          /\ deferred[i].pos % ((IALIGN + 7) \div 8) = 0
          /\ PlacedAt(pending_idx[i], deferred[i].pos)
    /\ \A j \in 1..Len(resolved) :
          /\ PlacedAt(resolved[j].idx, resolved[j].pos)
          /\ (JustFlushed(j) /\ \A l \in (j + 1)..Len(resolved) :
                                   JustFlushed(l) => resolved[l].pos # resolved[j].pos) =>
                Bytes(out_buf, resolved[j].pos, IlenBytes(resolved[j].insn))
                   = ConcreteEncoding(resolved[j].insn)

\* An instruction deferred behind an unaligned cursor and resolved by a flush.
C6_Witness ==
    \E j \in 1..Len(resolved), k \in 1..Len(placed) :
       /\ JustFlushed(j)
       /\ placed[k].idx = resolved[j].idx
       /\ placed[k].from # placed[k].pos

(***************************************************************************)
(* Padding, .org and placeholders.                                         *)
(***************************************************************************)
VisitedNode == {stream'[i] : i \in {j \in 1..Len(stream') : j = Len(stream')}}

\* C7: when a standard instruction is visited with an unaligned cursor, the
\* bytes from the cursor to the next aligned position are zero after the
\* padding step.
C7_GapsZero ==
    [][\A n \in VisitedNode :
          (Visits(n) /\ Placeable(n)) =>
             \A i \in out_pos..(Last(placed').pos - 1) : out_buf'[i + 1] = 0]_vars

IsOrg(n) == n.kind = "Instruction" /\ IsOrgName(n.name)

\* n is .org N with N a resolved integer that is a multiple of the alignment.
OrgTarget(n) == simplify_arg(State, n.args[1], out_pos).node

AlignedOrg(n) ==
    /\ IsOrg(n)
    /\ Len(n.args) = 1
    /\ OrgTarget(n).t = "Integer"
    /\ OrgTarget(n).n % ((IALIGN + 7) \div 8) = 0

\* n is a standard instruction that resolves and encodes at the cursor.
EncodesNow(n) ==
    /\ Placeable(n)
    /\ emitter_simplify(State, n, out_pos).ok
    /\ emit_standard(State, n).err = ""

\* The instruction visited right after .org N lands at [N, N + ilen_bytes).
LandsAtOrg ==
    \A n \in VisitedNode :
       (Visits(n) /\ EncodesNow(n) /\ stream # <<>> /\ AlignedOrg(Last(stream))) =>
          /\ out_pos = Last(stream).args[1].n \/ Last(stream).args[1].t # "Integer"
          /\ Last(placed').pos = out_pos
          /\ out_pos' = out_pos + IlenBytes(n)
          /\ Bytes(out_buf', out_pos, IlenBytes(n))
                = ConcreteEncoding(emitter_simplify(State, n, out_pos).node)

\* C8 as stated: .org N moves the cursor to N and leaves every byte of
\* [old_cursor, N) zero, and the instruction that follows lands at N.
C8_AsStated ==
    [][/\ \A n \in VisitedNode :
             (Visits(n) /\ AlignedOrg(n)) =>
                /\ out_pos' = OrgTarget(n).n
                /\ Len(out_buf') >= OrgTarget(n).n
                /\ \A i \in out_pos..(OrgTarget(n).n - 1) : out_buf'[i + 1] = 0
       /\ LandsAtOrg]_vars

\* C8 amended: .org N moves the cursor to N; the bytes it adds to the image,
\* [old image length, N), are zero and the bytes already in the image are
\* left as they are (so [old_cursor, N) is zero where nothing was written
\* before); the instruction that follows lands at N.
C8_OrgRoundTrip ==
    [][/\ \A n \in VisitedNode :
             (Visits(n) /\ AlignedOrg(n)) =>
                /\ status' = "Running"
                /\ out_pos' = OrgTarget(n).n
                /\ Len(out_buf') = IF OrgTarget(n).n > Len(out_buf) THEN OrgTarget(n).n
                                   ELSE Len(out_buf)
                /\ \A i \in Len(out_buf)..(OrgTarget(n).n - 1) : out_buf'[i + 1] = 0
                /\ \A i \in 0..(Len(out_buf) - 1) : out_buf'[i + 1] = out_buf[i + 1]
       /\ LandsAtOrg]_vars

\* An instruction encoded at 8 right after .org 8 jumped over a gap.
C8_Witness ==
    /\ status = "Running"
    /\ Len(stream) >= 2
    /\ stream[Len(stream) - 1] = Instruction(".org", <<Integer(8)>>)
    /\ Placeable(Last(stream))
    /\ ~Last(placed).deferred
    /\ Last(placed).pos = 8
    /\ Bytes(out_buf, 8, 4)[1] = 111
    /\ \E i \in 0..7 : out_buf[i + 1] = 0

\* C9: between top-level steps every pending entry has ilen_bytes zero bytes
\* at its position in the image.
C9_Placeholders ==
    status = "Running" =>
       \A i \in 1..Len(deferred) :
          /\ Len(out_buf) >= deferred[i].pos + IlenBytes(deferred[i].insn)
          /\ \A b \in 0..(IlenBytes(deferred[i].insn) - 1) :
                out_buf[deferred[i].pos + b + 1] = 0

(***************************************************************************)
(* Symbol lookup.                                                          *)
(***************************************************************************)
AllNames == <<"A", "B", ".x", "K", "XLEN", "IALIGN">>

FirstTable(name) ==
    IF name \in DOMAIN label_set THEN label_set[name]
    ELSE IF name \in DOMAIN local_label_set THEN local_label_set[name]
    ELSE IF name \in DOMAIN const_set THEN const_set[name]
    ELSE IF name \in DOMAIN SpecConsts THEN SpecConsts[name]
    ELSE None

\* C10: resolve(name) is the value of the first of globals, locals,
\* constants, architecture constants that holds the name, and no value only
\* when none does; once a global label N is recorded, an .equ/.define of N
\* changes the value of N for no instruction: one visited afterwards and one
\* flushed afterwards are both encoded with the label's offset.
C10_LookupOrder ==
    [][/\ \A i \in 1..Len(AllNames) :
             (find_const(State, AllNames[i]) = FirstTable(AllNames[i]))'
       /\ \A n \in VisitedNode :
             /\ (Visits(n) /\ IsEqu(n)) =>
                   \A N \in DOMAIN label_set : (find_const(State, N))' = label_set[N]
             /\ (Visits(n) /\ Placeable(n) /\ Refs(n) # {} /\ Refs(n) \subseteq DOMAIN label_set
                   /\ status' = "Running") =>
                   Bytes(out_buf', Last(placed').pos, IlenBytes(n))
                      = EncodingUnder(label_set, n, Last(placed').pos)
       /\ \A j \in (Len(resolved) + 1)..Len(resolved') :
             Refs(resolved'[j].raw) \subseteq DOMAIN label_set =>
                \A i \in 1..Len(resolved'[j].raw.args) :
                   resolved'[j].insn.args[i].n
                      = ValuesUnder(label_set, resolved'[j].raw, resolved'[j].pos)[i]]_vars

\* A global label and a constant of the same name, and an instruction encoded
\* with the label's offset after the constant was defined.
C10_Witness ==
    /\ status = "Running"
    /\ "A" \in DOMAIN label_set /\ "A" \in DOMAIN const_set
    /\ label_set["A"] # const_set["A"]
    /\ stream # <<>>
    /\ Last(stream) = Instruction("jal", <<x1, Identifier("A")>>)
    /\ Bytes(out_buf, Last(placed).pos, 4) = <<111, 1, label_set["A"], 0>>

(***************************************************************************)
(* Directives.                                                             *)
(***************************************************************************)
\* The operand does not reduce to an integer under the resolver of the state.
Unreduced(arg) ==
    \/ arg.t = "Register"
    \/ Symbolic(arg) /\ FirstTable(arg.id) = None

\* C11: an .org whose operand, or an .equ/.define whose value operand, does
\* not reduce to an integer when the directive is visited fails at once with
\* InvalidArgumentType (index 0 for .org, 1 for .equ/.define); nothing is
\* queued and cursor, image and constants stay as they were.
C11_DirectivesNotDeferred ==
    [][\A n \in VisitedNode :
          /\ (Visits(n) /\ IsOrg(n) /\ Len(n.args) = 1 /\ Unreduced(n.args[1])) =>
                /\ status' = "InvalidArgumentType" /\ err_arg' = 0
                /\ UNCHANGED <<deferred, out_pos, out_buf, const_set>>
          /\ (Visits(n) /\ IsEqu(n) /\ Len(n.args) = 2 /\ n.args[1].t = "Identifier"
                /\ Unreduced(n.args[2])) =>
                /\ status' = "InvalidArgumentType" /\ err_arg' = 1
                /\ UNCHANGED <<deferred, out_pos, out_buf, const_set>>]_vars

\* An .org on a label that is defined nowhere yet, visited with an entry
\* already pending.
C11_Witness ==
    /\ status = "InvalidArgumentType" /\ err_arg = 0
    /\ Last(stream) = Instruction(".org", <<Identifier("B")>>)
    /\ Len(deferred) = 1
    /\ out_pos = 4

(***************************************************************************)
(* The image.                                                              *)
(***************************************************************************)
InsideInstruction(i) ==
    \E k \in 1..Len(placed) :
       placed[k].pos <= i /\ i < placed[k].pos + IlenBytes(placed[k].insn)

\* C12: in the image returned on success every byte outside the ranges of the
\* instructions emitted or flushed is zero.
C12_UnemittedZero ==
    status = "Ok" =>
       \A i \in 0..(Len(out_buf) - 1) : ~InsideInstruction(i) => out_buf[i + 1] = 0

\* A returned image with an instruction, a gap left by .org and an
\* instruction behind the gap.
C12_Witness ==
    /\ status = "Ok"
    /\ Len(out_buf) = 12
    /\ out_buf[1] # 0 /\ out_buf[9] # 0
    /\ ~InsideInstruction(5)

(***************************************************************************)
(* The flush.  Streams of forward references, up to MaxFlushNodes nodes.   *)
(***************************************************************************)
MaxFlushNodes == 5

FlushLabels == <<"A", "B", ".x">>

FlushInstructions ==
    <<Instruction("jal", <<x1, Identifier("A")>>),
      Instruction("jal", <<x1, Identifier("B")>>),
      Instruction("jal", <<x1, PcRel("B")>>),
      Instruction("jal", <<x1, Identifier(".x")>>),
      Instruction(".org", <<Integer(8)>>)>>

NextFlush ==
    \/ VisitLabel(FlushLabels, MaxFlushNodes)
    \/ VisitInstruction(FlushInstructions, MaxFlushNodes)
    \/ EndOfStream

SpecFlush == Init /\ [][NextFlush]_vars

\* The step ends the stream.
EndStep == status = "Running" /\ stream' = stream /\ status' # "Running"

\* The step runs a flush: it visits a global label or ends the stream.
FlushStep == EndStep \/ \E n \in VisitedNode : Visits(n) /\ IsGlobalLabel(n)

FlushSucceeds == FlushStep /\ ~IsReencodeError(status')

\* The entry names a symbol that no table of the state holds.
Unresolved(e) ==
    \E i \in 1..Len(e.insn.args) :
       Symbolic(e.insn.args[i]) /\ FirstTable(e.insn.args[i].id) = None

Count(q, e) == Cardinality({i \in 1..Len(q) : q[i] = e})

Overlap(e, f) ==
    /\ e.pos < f.pos + IlenBytes(f.insn)
    /\ f.pos < e.pos + IlenBytes(e.insn)

\* No other entry that resolves lies over entry i.
AloneResolved(i) ==
    \A j \in 1..Len(deferred) :
       (j # i /\ ~Unresolved(deferred[j])) => ~Overlap(deferred[i], deferred[j])

\* C13: after a flush without error the queue holds exactly the entries that
\* were pending and still do not resolve, each as it was (same position), as
\* often as before; every entry that resolves is encoded at its saved
\* position with that position as program counter.
C13_FlushPartition ==
    [][FlushSucceeds =>
          /\ \A i \in 1..Len(deferred) :
                Count(deferred', deferred[i]) =
                   IF Unresolved(deferred[i]) THEN Count(deferred, deferred[i]) ELSE 0
          /\ \A i \in 1..Len(deferred') : Count(deferred, deferred'[i]) > 0
          /\ \A i \in 1..Len(deferred) :
                (~Unresolved(deferred[i]) /\ AloneResolved(i)) =>
                   Bytes(out_buf', deferred[i].pos, IlenBytes(deferred[i].insn)) =
                      EncodingUnder([n \in Refs(deferred[i].insn) |-> FirstTable(n)],
                                    deferred[i].insn, deferred[i].pos)]_vars

\* jal A, jal pcrel B and jal B pending; the flush at B resolved the first
\* and moved the last into its slot, the final flush resolved the other two,
\* the pc-relative one with its own position 4.
C13_Witness ==
    /\ status = "Ok"
    /\ Len(resolved) = 3
    /\ resolved[1].at = 4
    /\ resolved[2].pos = 8
    /\ resolved[3].pos = 4
    /\ Bytes(out_buf, 4, 4) = <<111, 1, 8, 0>>

\* Byte i (counted from 0) lies in the range of a pending entry that resolves.
InResolvedRange(i) ==
    \E j \in 1..Len(deferred) :
       /\ ~Unresolved(deferred[j])
       /\ deferred[j].pos <= i
       /\ i < deferred[j].pos + IlenBytes(deferred[j].insn)

\* C14: a flush without error leaves the cursor, the length of the image and
\* the constants as they were, and changes bytes only in the ranges of the
\* entries it resolved; the final flush leaves both label tables as they
\* were, and the flush of a global label leaves every other global label.
C14_FlushFrame ==
    [][FlushSucceeds =>
          /\ out_pos' = out_pos
          /\ Len(out_buf') = Len(out_buf)
          /\ const_set' = const_set
          /\ \A i \in 0..(Len(out_buf) - 1) :
                out_buf'[i + 1] # out_buf[i + 1] => InResolvedRange(i)
          /\ EndStep => (label_set' = label_set /\ local_label_set' = local_label_set)
          /\ \A v \in VisitedNode :
                Visits(v) =>
                   \A n \in DOMAIN label_set \ {v.name} :
                      n \in DOMAIN label_set' /\ label_set'[n] = label_set[n]]_vars

\* The final flush wrote an entry at position 0 while the cursor stood at 8,
\* behind a second instruction.
C14_Witness ==
    /\ status = "Ok"
    /\ Len(resolved) = 1
    /\ resolved[1].at = Len(stream)
    /\ resolved[1].pos = 0
    /\ out_buf[1] # 0
    /\ out_pos = 8
    /\ Len(out_buf) = 8

(***************************************************************************)
(* Layout.                                                                 *)
(***************************************************************************)
AlignBytes == (IALIGN + 7) \div 8

AlignedUp(pos) == ((pos + AlignBytes - 1) \div AlignBytes) * AlignBytes

\* C15: a standard instruction that passes the mnemonic, arity and length
\* checks and is encoded or deferred leaves the cursor at the aligned
\* position plus its length, the same whether its symbols are known or not;
\* it is deferred exactly when one of its symbols is unknown.
C15_LayoutIndependent ==
    [][\A n \in VisitedNode :
          (Visits(n) /\ Placeable(n) /\ status' = "Running") =>
             /\ out_pos' = AlignedUp(out_pos) + (get_instruction_by_name(n.name).ilen + 7) \div 8
             /\ Unresolved([pos |-> out_pos, insn |-> n]) <=>
                   (Len(deferred') = Len(deferred) + 1 /\ Last(deferred').pos = AlignedUp(out_pos))
             /\ ~Unresolved([pos |-> out_pos, insn |-> n]) <=> deferred' = deferred]_vars

\* A 2-byte instruction, then a deferred jal padded to 4 and the cursor at 8,
\* where it would be had the jal been encoded.
C15_Witness ==
    /\ status = "Running"
    /\ Len(stream) = 2
    /\ Last(stream) = Instruction("jal", <<x1, Identifier("B")>>)
    /\ Last(placed).from = 2
    /\ Len(deferred) = 1
    /\ deferred[1].pos = 4
    /\ out_pos = 8

(***************************************************************************)
(* Order of the steps at a global label.                                   *)
(***************************************************************************)
\* The entry was deferred on the global label lname, which is not recorded yet.
ForwardOn(e, lname) == lname \in Refs(e.insn) /\ lname \notin DOMAIN label_set

\* C16: a global label flushes, then clears the locals, then records its
\* offset: the flush resolves what the tables before the label resolve (the
\* closing scope's locals among them), so an entry deferred on the label itself
\* is still pending after the label's step and leaves the queue at the next
\* flush; a step that is neither a global label nor the end of the stream
\* flushes nothing.
C16_Ordering ==
    [][/\ \A n \in VisitedNode :
             (Visits(n) /\ IsGlobalLabel(n) /\ status' = "Running") =>
                /\ local_label_set' = EmptyMap
                /\ label_set'[n.name] = out_pos
                /\ \A i \in 1..Len(deferred) :
                      /\ ~Unresolved(deferred[i]) => Count(deferred', deferred[i]) = 0
                      /\ ForwardOn(deferred[i], n.name) => Count(deferred', deferred[i]) > 0
       /\ \A n \in VisitedNode :
             (Visits(n) /\ ~IsGlobalLabel(n)) =>
                /\ resolved' = resolved
                /\ deferred' = deferred \/ deferred' = Append(deferred, Last(deferred'))
       /\ FlushSucceeds =>
             \A i \in 1..Len(deferred) :
                Refs(deferred[i].insn) \subseteq DOMAIN label_set => Count(deferred', deferred[i]) = 0]_vars

\* The same, for labels that no constant shares its name with.
C16_NoSharedNames ==
    [][/\ \A n \in VisitedNode :
             (Visits(n) /\ IsGlobalLabel(n) /\ status' = "Running") =>
                /\ local_label_set' = EmptyMap
                /\ label_set'[n.name] = out_pos
                /\ \A i \in 1..Len(deferred) :
                      /\ ~Unresolved(deferred[i]) => Count(deferred', deferred[i]) = 0
                      /\ (ForwardOn(deferred[i], n.name) /\ n.name \notin DOMAIN const_set) =>
                            Count(deferred', deferred[i]) > 0
       /\ \A n \in VisitedNode :
             (Visits(n) /\ ~IsGlobalLabel(n)) =>
                /\ resolved' = resolved
                /\ deferred' = deferred \/ deferred' = Append(deferred, Last(deferred'))
       /\ FlushSucceeds =>
             \A i \in 1..Len(deferred) :
                Refs(deferred[i].insn) \subseteq DOMAIN label_set => Count(deferred', deferred[i]) = 0]_vars

(***************************************************************************)
(* Structural errors.  Streams of instructions that are unknown, have the  *)
(* wrong number of arguments or are too long, their arguments unresolved.  *)
(***************************************************************************)
MaxStructNodes == 4

StructLabels == <<"B">>

StructInstructions ==
    <<Instruction("cj", <<Integer(3)>>),
      Instruction("jal", <<x1, Identifier("B")>>),
      Instruction("nop", <<Identifier("B")>>),
      Instruction("jal", <<Identifier("B")>>),
      Instruction("wide", <<Identifier("B")>>),
      Instruction("wide", <<x1, Identifier("B")>>)>>

NextStruct ==
    \/ VisitLabel(StructLabels, MaxStructNodes)
    \/ VisitInstruction(StructInstructions, MaxStructNodes)
    \/ EndOfStream

SpecStruct == Init /\ [][NextStruct]_vars

KnownMnemonic(n) == n.name = "jal" \/ n.name = "cj" \/ n.name = "wide"

RightCount(n) == Len(n.args) = Len(get_instruction_by_name(n.name).args)

TooLong(n) == (get_instruction_by_name(n.name).ilen + 7) \div 8 > (ILEN + 7) \div 8

\* C17: a standard instruction with an unknown mnemonic fails with
\* InvalidInstruction, else one with the wrong number of arguments with
\* InvalidArgumentCount, else one longer than the maximum with
\* InvalidEncoding, at its first visit and whether or not its arguments
\* resolve; the image and the cursor are as before (no padding) and nothing
\* is queued.
C17_StructuralFirst ==
    [][\A n \in VisitedNode :
          (Visits(n) /\ n.kind = "Instruction" /\ ~IsDirective(n)) =>
             /\ ~KnownMnemonic(n) =>
                   (status' = "InvalidInstruction" /\ UNCHANGED <<out_buf, out_pos, deferred>>)
             /\ (KnownMnemonic(n) /\ ~RightCount(n)) =>
                   (status' = "InvalidArgumentCount" /\ UNCHANGED <<out_buf, out_pos, deferred>>)
             /\ (KnownMnemonic(n) /\ RightCount(n) /\ TooLong(n)) =>
                   (status' = "InvalidEncoding" /\ UNCHANGED <<out_buf, out_pos, deferred>>)]_vars

\* A too long instruction on an unknown symbol, visited with the cursor at 6
\* and an entry pending: the error is raised and nothing was padded.
C17_Witness ==
    /\ status = "InvalidEncoding"
    /\ Last(stream) = Instruction("wide", <<Identifier("B")>>)
    /\ out_pos = 6
    /\ Len(out_buf) = 6
    /\ Len(deferred) = 1

(***************************************************************************)
(* Local labels.                                                           *)
(***************************************************************************)
\* The stream defines the local label lname behind its last global label.
DefinedInScope(lname) ==
    \E j \in 1..Len(stream) :
       /\ stream[j] = Label(lname)
       /\ \A k \in (j + 1)..Len(stream) : ~IsGlobalLabel(stream[k])

IsLocalLabel(node) == node.kind = "Label" /\ StartsWithDot(node.name)

\* C18: a local label defined a second time with no global label in between
\* gives DuplicateLabel; defined for the first time in its scope, also when
\* an earlier scope has it, it is recorded with the cursor as offset and keeps
\* it through the scope, and an instruction of the scope that names it is
\* encoded with that offset; the visit of a local label flushes nothing and
\* leaves globals, queue, image and cursor as they were.
C18_LocalDuplicates ==
    [][\A v \in VisitedNode :
          /\ (Visits(v) /\ IsLocalLabel(v)) =>
                /\ DefinedInScope(v.name) => status' = "DuplicateLabel"
                /\ ~DefinedInScope(v.name) =>
                      (status' = "Running" /\ local_label_set'[v.name] = out_pos)
                /\ UNCHANGED <<label_set, deferred, out_buf, out_pos, resolved>>
          /\ (Visits(v) /\ ~IsGlobalLabel(v) /\ status' = "Running") =>
                \A n \in DOMAIN local_label_set : local_label_set'[n] = local_label_set[n]
          /\ (Visits(v) /\ Placeable(v) /\ status' = "Running" /\ Refs(v) # {}
                /\ \A n \in Refs(v) : StartsWithDot(n) /\ DefinedInScope(n)) =>
                Bytes(out_buf', AlignedUp(out_pos), IlenBytes(v)) =
                   EncodingUnder([n \in Refs(v) |-> local_label_set[n]], v, AlignedUp(out_pos))]_vars

\* .x at 0 in the first scope and at 4 under a global label; the jal behind
\* the second .x is encoded with 4.
C18_Witness ==
    /\ status = "Running"
    /\ Len(stream) = 5
    /\ stream[1] = Label(".x")
    /\ IsGlobalLabel(stream[3])
    /\ stream[4] = Label(".x")
    /\ Len(out_buf) = 8
    /\ Bytes(out_buf, 4, 4) = <<111, 1, 4, 0>>

\* C19: the cursor never lies beyond the end of the image, and the image
\* never gets shorter.
C19_CursorInImage ==
    [][out_pos' <= Len(out_buf') /\ Len(out_buf') >= Len(out_buf)]_vars

\* An .org 8 on an image of 2 bytes, and an .org 0 on an image of 8 bytes.
C19_Witness ==
    /\ status = "Running"
    /\ Len(stream) = 3
    /\ stream[2] = Instruction(".org", <<Integer(8)>>)
    /\ stream[3] = Instruction(".org", <<Integer(0)>>)
    /\ stream[1] = Instruction("cj", <<Integer(3)>>)
    /\ out_pos = 0
    /\ Len(out_buf) = 8

(***************************************************************************)
(* Termination.                                                            *)
(***************************************************************************)
\* The entries the step's flush re-emitted.
Reemitted == {resolved'[j].insn : j \in (Len(resolved) + 1)..Len(resolved')}

Concrete(node) == \A i \in 1..Len(node.args) : ~Symbolic(node.args[i])

\* C20: a flush is one pass: what it re-emits are standard instructions with
\* every argument resolved, so the re-emission queues nothing, defines no
\* label and no constant and runs no flush of its own; the queue after the
\* flush holds entries it held before and is not longer, and the pass
\* re-emits at most as many entries as were pending; every step of the
\* emission consumes one node of the stream or ends it, so the emission of a
\* finite stream comes to an end.
C20_FlushTerminates ==
    [][/\ FlushStep =>
             /\ \A node \in Reemitted :
                   node.kind = "Instruction" /\ ~IsDirective(node) /\ Concrete(node)
             /\ Len(deferred') <= Len(deferred)
             /\ \A i \in 1..Len(deferred') :
                   /\ Count(deferred', deferred'[i]) <= Count(deferred, deferred'[i])
                   /\ Unresolved(deferred'[i])
             /\ Len(resolved') - Len(resolved) + Len(deferred') = Len(deferred)
             /\ const_set' = const_set
             /\ EndStep => label_set' = label_set
             /\ \A v \in VisitedNode :
                   Visits(v) => DOMAIN label_set' \subseteq DOMAIN label_set \cup {v.name}
       /\ status = "Running"
       /\ Len(stream') = Len(stream) + 1 \/ EndStep
       /\ Len(resolved') - Len(resolved) <= Len(deferred)]_vars

\* The flush of a global label took one entry out of a queue of two.
C20_Witness ==
    /\ status = "Running"
    /\ stream # <<>>
    /\ IsGlobalLabel(Last(stream))
    /\ Len(resolved) = 1
    /\ resolved[1].at = Len(stream) - 1
    /\ Len(deferred) = 1

====
